---- MODULE Spec2Model ----
(***************************************************************************)
(* A model of app.py: the course catalog service.  Request handlers run    *)
(* on concurrent threads; they share the Metrics object (two counters      *)
(* behind one lock) and the catalog file, which no lock protects.  A       *)
(* handler is cut into steps at every access to shared state; what a       *)
(* handler does between two accesses is local and belongs to the step      *)
(* before it.                                                              *)
(***************************************************************************)
EXTENDS Integers, Sequences, FiniteSets, TLC

\* Bounds of the model.
NumThreads == 2
MaxRequests == 3

Threads == 1..NumThreads

VARIABLES
    requests_count,   \* Metrics.requests_count
    error_count,      \* Metrics.error_count
    lock,             \* Metrics.lock: 0 when free, else the thread holding it
    file,             \* COURSE_FILE on disk
    req,              \* req[t]: the frame of the request thread t is handling
    returned,         \* history: values returned by increment_requests, in order
    stored            \* history: <<position, record>> pairs seen in a well-formed file

vars == <<requests_count, error_count, lock, file, req, returned, stored>>

----------------------------------------------------------------------------
\* Forms and courses

FormFields ==
    <<"code", "name", "instructor", "semester", "schedule",
      "classroom", "prerequisites", "grading", "description">>

RequiredKeys == <<"code", "name", "schedule", "prerequisites">>

FieldSet == {FormFields[i] : i \in 1..Len(FormFields)}

\* Forms that carry all nine fields: every pattern of empty and filled required
\* fields, and a second course with the code of the first.
FullForms ==
    [code : {"", "CS101"}, name : {"", "Intro"}, instructor : {""},
     semester : {""}, schedule : {"", "MWF"}, classroom : {""},
     prerequisites : {"", "None"}, grading : {""}, description : {""}]
    \cup
    [code : {"CS101"}, name : {"Algo"}, instructor : {""},
     semester : {""}, schedule : {"MWF"}, classroom : {""},
     prerequisites : {"None"}, grading : {""}, description : {""}]

Without(f, k) == [x \in (DOMAIN f) \ {k} |-> f[x]]

\* Forms a client sends without the description field.
PartialForms ==
    {Without(f, "description") :
        f \in {g \in FullForms : g.name = "Intro" /\ g.schedule = "MWF"
                                 /\ g.prerequisites = "None"}}

Forms == FullForms \cup PartialForms

\* Path parameters of /course/<code>.
PathCodes == {"CS101", "UNKNOWN"}

\* request.form[k] raises (HTTP 400) when the form lacks k.
HasAllFields(form) == \A k \in FieldSet : k \in DOMAIN form

\* The course dict of add_course.
CourseOf(form) == [k \in FieldSet |-> form[k]]

NoForm == [none |-> ""]
NoCourse == <<>>

----------------------------------------------------------------------------
\* The catalog file

\* kind: "absent", no file; "json", a JSON array (data); "empty", truncated by
\* open(COURSE_FILE, 'w') and not yet written; "garbled", bytes that do not parse.
NoFile == [kind |-> "absent", data |-> <<>>]
EmptyFile == [kind |-> "empty", data |-> <<>>]
GarbledFile == [kind |-> "garbled", data |-> <<>>]
JsonFile(list) == [kind |-> "json", data |-> list]

IsPrefix(s, u) == Len(s) <= Len(u) /\ SubSeq(u, 1, Len(s)) = s

\* load_courses(): <<"ok", list>> or <<"raise", <<>>>> (json.load fails).
load_courses(f) ==
    IF f.kind = "absent" THEN <<"ok", <<>>>>
    ELSE IF f.kind = "json" THEN <<"ok", f.data>>
    ELSE <<"raise", <<>>>>

\* A save that keeps the new record alone.
OnlyNewCourse(courses, data) == <<data>>

\* courses.append(data)
AppendCourse(courses, data) == Append(courses, data)

\* A dump of the new record alone.
DumpOnlyLast(f, list) == {JsonFile(<<list[Len(list)]>>)}

\* The files json.dump and close can leave.  The writer's bytes go to offset 0 of
\* whatever the file holds by then: nothing, when no other writer closed since
\* this writer's open truncated it; else another writer's text, which the new
\* text covers or not, depending on the lengths.
DumpOutcomes(f, list) ==
    IF f.kind = "empty" THEN {JsonFile(list)}
    ELSE IF f.kind = "json" /\ IsPrefix(f.data, list) THEN {JsonFile(list)}
    ELSE IF f.kind = "json" /\ IsPrefix(list, f.data) THEN {GarbledFile}
    ELSE {JsonFile(list), GarbledFile}

\* A lookup in which the last matching record wins.
RECURSIVE LastMatch(_, _)
LastMatch(courses, code) ==
    IF courses = <<>> THEN <<>>
    ELSE IF courses[Len(courses)].code = code THEN <<courses[Len(courses)]>>
    ELSE LastMatch(SubSeq(courses, 1, Len(courses) - 1), code)

\* next((course for course in courses if course['code'] == code), None)
RECURSIVE FirstMatch(_, _)
FirstMatch(courses, code) ==
    IF courses = <<>> THEN <<>>
    ELSE IF Head(courses).code = code THEN <<Head(courses)>>
    ELSE FirstMatch(Tail(courses), code)

Positions(list) == {<<i, list[i]>> : i \in 1..Len(list)}

----------------------------------------------------------------------------
\* Responses

Render(template, bound) == [status |-> 200, target |-> template, body |-> bound]
Redirect(url) == [status |-> 302, target |-> url, body |-> <<>>]
BadRequest == [status |-> 400, target |-> "", body |-> <<>>]
ServerError == [status |-> 500, target |-> "", body |-> <<>>]
NoResponse == [status |-> 0, target |-> "", body |-> <<>>]

----------------------------------------------------------------------------
\* Request frames

\* A frame holds the request thread t handles (route, form, code), the locals
\* of the handler, the records it logged and the notices it flashed.  When the
\* handler returns, its locals are gone: a finished frame keeps the route, the
\* notices (they live in the client's session) and the response.
Idle ==
    [pc |-> "idle", route |-> "", form |-> NoForm, code |-> "",
     course |-> NoCourse, courses |-> <<>>, error_count |-> 0, p |-> 1,
     idx |-> 1, log |-> <<>>, flashes |-> <<>>, missing_field |-> "",
     response |-> NoResponse]

Free(t) == req[t].pc \in {"idle", "done"}

\* Requests under way that have not reached increment_requests yet.
Uncounted == {t \in Threads : req[t].pc = "cat_enter"}

MayStart == requests_count + Cardinality(Uncounted) < MaxRequests

\* The handler returns resp.
Done(f, resp) ==
    [Idle EXCEPT !.pc = "done", !.route = f.route, !.flashes = f.flashes,
                 !.response = resp]

\* Thread t goes on with frame f.
Continue(t, f) == req' = [req EXCEPT ![t] = f]

\* Metrics.__init__
Init ==
    /\ requests_count = 0
    /\ error_count = 0
    /\ lock = 0
    /\ file = NoFile
    /\ req = [t \in Threads |-> Idle]
    /\ returned = <<>>
    /\ stored = {}

----------------------------------------------------------------------------
\* Metrics

\* A Metrics whose methods do not take the lock.
NoLock(l) == TRUE

\* with self.lock
LockFree(l) == l = 0

\* A requests_count that increment_requests leaves as it is.
RequestsNotIncremented(n) == n

\* self.requests_count += 1
RequestsIncremented(n) == n + 1

\* An error_count that increment_errors leaves as it is.
ErrorsNotIncremented(n) == n

\* self.error_count += 1
ErrorsIncremented(n) == n + 1

\* increment_requests up to the increment: the first shared step of a handler.
EnterRequests(t, frame) ==
    /\ LockFree(lock)
    /\ lock' = t
    /\ requests_count' = RequestsIncremented(requests_count)
    /\ Continue(t, frame)
    /\ UNCHANGED <<error_count, file, returned, stored>>

\* return self.requests_count, leaving the lock; the handler goes on with frame.
ExitRequests(t, frame) ==
    /\ req[t].pc = "req_exit"
    /\ lock' = 0
    /\ returned' = Append(returned, requests_count)
    /\ Continue(t, frame)
    /\ UNCHANGED <<requests_count, error_count, file, stored>>

\* log_page_rendered(page_name)
PageLogged(f, page) == [f EXCEPT !.log = Append(@, <<"page", page>>)]

----------------------------------------------------------------------------
\* GET /

index(t) ==
    /\ Free(t)
    /\ MayStart
    /\ EnterRequests(t, [Idle EXCEPT !.pc = "req_exit", !.route = "index"])

index_render(t) ==
    /\ req[t].route = "index"
    /\ ExitRequests(t, Done(PageLogged(req[t], "index"), Render("index.html", <<>>)))

----------------------------------------------------------------------------
\* GET /catalog

\* courses = load_courses() comes before the span and the counter.
course_catalog(t) ==
    /\ Free(t)
    /\ MayStart
    /\ LET r == load_courses(file)
           f == [Idle EXCEPT !.route = "catalog"]
       IN Continue(t, IF r[1] = "raise" THEN Done(f, ServerError)
                      ELSE [f EXCEPT !.pc = "cat_enter", !.courses = r[2]])
    /\ UNCHANGED <<requests_count, error_count, lock, file, returned, stored>>

course_catalog_count(t) ==
    /\ req[t].pc = "cat_enter"
    /\ EnterRequests(t, [req[t] EXCEPT !.pc = "req_exit"])

course_catalog_render(t) ==
    /\ req[t].route = "catalog"
    /\ ExitRequests(t, Done(PageLogged(req[t], "course_catalog"),
                            Render("course_catalog.html", req[t].courses)))

----------------------------------------------------------------------------
\* GET /add/course

add_course_get(t) ==
    /\ Free(t)
    /\ Continue(t, Done([Idle EXCEPT !.route = "add_get"],
                         Render("add_course.html", <<>>)))
    /\ UNCHANGED <<requests_count, error_count, lock, file, returned, stored>>

----------------------------------------------------------------------------
\* POST /add/course

\* The first turn of the loop, from turn i on, that finds course[key] == "";
\* one past the last key when there is none.
RECURSIVE NextEmpty(_, _)
NextEmpty(course, i) ==
    IF i > Len(RequiredKeys) THEN i
    ELSE IF course[RequiredKeys[i]] = "" THEN i
    ELSE NextEmpty(course, i + 1)

\* A loop without the break: it goes on with the next key.
NoBreak(i) == i + 1

\* Where the loop goes on after it reported the key of turn i: break.
AfterReport(i) == Len(RequiredKeys) + 1

\* for key in ['code','name','schedule','prerequisites'], run from turn f.idx up
\* to the next call of increment_errors; when the loop is over, if(p==1) and the
\* redirect.
RunLoop(f) ==
    LET j == NextEmpty(f.course, f.idx)
    IN IF j > Len(RequiredKeys)
       THEN IF f.p = 1 THEN [f EXCEPT !.idx = j, !.pc = "save_load"]
            ELSE Done(f, Redirect("/catalog"))
       ELSE [f EXCEPT !.p = 0, !.idx = j,
                      !.log = Append(@, <<"missing", RequiredKeys[j]>>),
                      !.flashes = Append(@, <<"error", RequiredKeys[j]>>),
                      !.missing_field = RequiredKeys[j],
                      !.pc = "err_enter"]

add_course(t) ==
    /\ Free(t)
    /\ MayStart
    /\ EnterRequests(t, [Idle EXCEPT !.pc = "req_exit", !.route = "add_post"])

\* course = {'code': request.form['code'], ...}; p=1; the loop.  The handler
\* reads request.form here first, so the form the client sent is drawn here.
add_course_validate(t, form) ==
    /\ req[t].route = "add_post"
    /\ LET f == [PageLogged(req[t], "add_course") EXCEPT !.form = form]
       IN ExitRequests(t,
            IF HasAllFields(f.form)
            THEN RunLoop([f EXCEPT !.course = CourseOf(f.form), !.p = 1, !.idx = 1])
            ELSE Done(f, BadRequest))

\* increment_errors up to the increment
increment_errors(t) ==
    /\ req[t].pc = "err_enter"
    /\ LockFree(lock)
    /\ lock' = t
    /\ error_count' = ErrorsIncremented(error_count)
    /\ req' = [req EXCEPT ![t].pc = "err_exit"]
    /\ UNCHANGED <<requests_count, file, returned, stored>>

\* return self.error_count; span.set_attribute("error_count", error_count); break
increment_errors_return(t) ==
    /\ req[t].pc = "err_exit"
    /\ lock' = 0
    /\ Continue(t, RunLoop([req[t] EXCEPT !.error_count = error_count,
                                           !.idx = AfterReport(req[t].idx)]))
    /\ UNCHANGED <<requests_count, error_count, file, returned, stored>>

\* save_courses: courses = load_courses(); courses.append(data)
save_courses_load(t) ==
    /\ req[t].pc = "save_load"
    /\ LET r == load_courses(file)
           f == req[t]
       IN Continue(t, IF r[1] = "raise" THEN Done(f, ServerError)
                      ELSE [f EXCEPT !.courses = AppendCourse(r[2], f.course),
                                     !.pc = "save_open"])
    /\ UNCHANGED <<requests_count, error_count, lock, file, returned, stored>>

\* open(COURSE_FILE, 'w') creates the file or truncates it
save_courses_open(t) ==
    /\ req[t].pc = "save_open"
    /\ file' = EmptyFile
    /\ req' = [req EXCEPT ![t].pc = "save_dump"]
    /\ UNCHANGED <<requests_count, error_count, lock, returned, stored>>

\* json.dump(courses, file, indent=4) and the close; then course_success_info,
\* the flash and the redirect
save_courses_dump(t) ==
    /\ req[t].pc = "save_dump"
    /\ \E f \in DumpOutcomes(file, req[t].courses) :
          /\ file' = f
          /\ stored' = IF f.kind = "json" THEN stored \cup Positions(f.data) ELSE stored
    /\ LET f == req[t]
       IN Continue(t, Done([f EXCEPT
                                !.log = Append(@, <<"success", f.course.code>>),
                                !.flashes = Append(@, <<"success", f.course.name>>)],
                            Redirect("/catalog")))
    /\ UNCHANGED <<requests_count, error_count, lock, returned>>

----------------------------------------------------------------------------
\* GET /course/<code>

course_details(t) ==
    /\ Free(t)
    /\ MayStart
    /\ EnterRequests(t, [Idle EXCEPT !.pc = "req_exit", !.route = "details"])

\* The handler reads its path parameter after this point only, so the code the
\* client asked for is drawn here.
course_details_counted(t, code) ==
    /\ req[t].route = "details"
    /\ ExitRequests(t, [PageLogged(req[t], "course_details") EXCEPT
                            !.code = code, !.pc = "det_load"])

\* courses = load_courses(), the lookup, and the response
course_details_lookup(t) ==
    /\ req[t].pc = "det_load"
    /\ LET r == load_courses(file)
           f == [req[t] EXCEPT !.courses = r[2]]
           course == FirstMatch(r[2], f.code)
       IN Continue(t,
            IF r[1] = "raise" THEN Done(f, ServerError)
            ELSE IF course = <<>>
            THEN Done([f EXCEPT !.flashes = Append(@, <<"error", f.code>>),
                                !.log = Append(@, <<"error", f.code>>)],
                      Redirect("/catalog"))
            ELSE Done(f, Render("course_details.html", course)))
    /\ UNCHANGED <<requests_count, error_count, lock, file, returned, stored>>

----------------------------------------------------------------------------
\* A step of thread t other than the start of a POST /add/course.
Step(t) ==
    \/ index(t)
    \/ index_render(t)
    \/ course_catalog(t)
    \/ course_catalog_count(t)
    \/ course_catalog_render(t)
    \/ add_course_get(t)
    \/ \E form \in Forms : add_course_validate(t, form)
    \/ increment_errors(t)
    \/ increment_errors_return(t)
    \/ save_courses_load(t)
    \/ save_courses_open(t)
    \/ save_courses_dump(t)
    \/ course_details(t)
    \/ \E code \in PathCodes : course_details_counted(t, code)
    \/ course_details_lookup(t)

Next == \E t \in Threads : Step(t) \/ add_course(t)

Spec == Init /\ [][Next]_vars

\* The service with no concurrent writer: a POST /add/course starts only when no
\* other is under way; readers run as they like.
Writers == {t \in Threads : req[t].route = "add_post" /\ req[t].pc # "done"}

NextOneWriter == \E t \in Threads : Step(t) \/ (Writers = {} /\ add_course(t))

SpecOneWriter == Init /\ [][NextOneWriter]_vars

----------------------------------------------------------------------------
\* Properties

Stepped(t) == req'[t] # req[t]

Range(seq) == {seq[i] : i \in 1..Len(seq)}

\* C1: on a fresh Metrics object, whatever the interleaving of the callers, the
\* values increment_requests has returned so far are exactly 1..N, N being the
\* number of calls that returned: no value twice, none skipped.
C1_ReturnedOneToN ==
    /\ Range(returned) = 1..Len(returned)
    /\ \A i, j \in 1..Len(returned) : i # j => returned[i] # returned[j]

\* Two calls have returned and a third holds the lock while another handler runs.
C1_Witness ==
    /\ Len(returned) >= 2
    /\ \E t, u \in Threads :
          /\ t # u
          /\ req[t].pc = "req_exit"
          /\ ~Free(u)

\* C10: in every reachable state error_count <= requests_count.
C10_ErrorsAtMostRequests == error_count <= requests_count

\* Every request counted so far also counted an error.
C10_Witness == error_count >= 2 /\ error_count = requests_count

----------------------------------------------------------------------------
\* Steps of save_courses and of the lookup, told by the thread's position.

SaveLoadStep(t) == req[t].pc = "save_load" /\ req'[t].pc = "save_open"
TruncateStep(t) == req[t].pc = "save_open" /\ req'[t].pc = "save_dump"
DumpStep(t) == req[t].pc = "save_dump" /\ req'[t].pc = "done"
LookupStep(t) == req[t].pc = "det_load" /\ req'[t].pc = "done"
CatalogLoadStep(t) == Free(t) /\ Stepped(t) /\ req'[t].route = "catalog"

Front(seq) == SubSeq(seq, 1, Len(seq) - 1)

\* C2: load_courses() returns the empty sequence when the file does not exist;
\* with no concurrent writer, the file save_courses(c) rewrites is still the one
\* its load returned, and a load_courses() after the save returns that list with
\* c appended: last element c, length one more than before the save.
C2_SaveThenLoad ==
    [][\A t \in Threads :
          /\ (CatalogLoadStep(t) /\ file.kind = "absent")
                => (req'[t].pc = "cat_enter" /\ req'[t].courses = <<>>)
          /\ (CatalogLoadStep(t) /\ file.kind = "json")
                => (req'[t].pc = "cat_enter" /\ req'[t].courses = file.data)
          /\ (req[t].pc = "save_load" /\ Stepped(t) /\ file.kind \in {"absent", "json"})
                => (/\ req'[t].pc = "save_open"
                    /\ req'[t].courses = Append(file.data, req[t].course))
          /\ TruncateStep(t)
                => (/\ file.kind \in {"absent", "json"}
                    /\ file.data = Front(req[t].courses))
          /\ DumpStep(t)
                => (/\ file'.kind = "json"
                    /\ file'.data = req[t].courses
                    /\ file'.data[Len(file'.data)] = req[t].course
                    /\ Len(file'.data) = Len(Front(req[t].courses)) + 1)
      ]_vars

\* A catalog request has loaded the two records that two saves left.
C2_Witness ==
    \E t \in Threads :
        /\ req[t].pc = "cat_enter"
        /\ file.kind = "json"
        /\ req[t].courses = file.data
        /\ Len(file.data) = 2

\* C3: save_courses is not atomic.  A writer's dump that leaves a well-formed file
\* leaves the list that writer loaded plus its own record, whatever other
\* writers stored in the meantime: a record another writer stored at the
\* position where this one appends is gone, though both saves returned.
C3_LaterWriterWins ==
    [][\A u \in Threads :
          (DumpStep(u) /\ file'.kind = "json")
             => (/\ file'.data = req[u].courses
                 /\ Len(file'.data) = Len(Front(req[u].courses)) + 1
                 /\ file'.data[Len(file'.data)] = req[u].course
                 /\ \A pr \in stored :
                       (pr[1] = Len(req[u].courses) /\ pr[2] # req[u].course)
                          => pr \notin Positions(file'.data))
      ]_vars

\* Two POSTs of different courses both ended in the success notice and the
\* redirect; the file holds one record, and another record was stored before.
C3_Witness ==
    /\ file.kind = "json"
    /\ Len(file.data) = 1
    /\ \E pr \in stored : pr[1] = 1 /\ pr[2] # file.data[1]
    /\ \E t, u \in Threads :
          /\ t # u
          /\ req[t].pc = "done" /\ req[u].pc = "done"
          /\ req[t].route = "add_post" /\ req[u].route = "add_post"
          /\ req[t].response = Redirect("/catalog")
          /\ req[u].response = Redirect("/catalog")
          /\ req[t].flashes = <<<<"success", file.data[1].name>>>>
          /\ \E pr \in stored : req[u].flashes = <<<<"success", pr[2].name>>>>
                                /\ pr[2] # file.data[1]

\* C4: the catalog is append-only: whenever the file holds a JSON array, every
\* record that was once in the file is in it, at the position it had.
C4_AppendOnly == file.kind = "json" => stored \subseteq Positions(file.data)

\* Some required field the form carries is the empty string.
SomeRequiredEmpty(form) ==
    \E i \in 1..Len(RequiredKeys) :
        RequiredKeys[i] \in DOMAIN form /\ form[RequiredKeys[i]] = ""

\* The steps of a request after validation has failed: one increment_errors,
\* then the redirect; the file is not touched.
FailurePath(t) ==
    /\ (req[t].pc = "err_enter" /\ Stepped(t))
          => (/\ req'[t].pc = "err_exit"
              /\ error_count' = error_count + 1
              /\ file' = file)
    /\ (req[t].pc = "err_exit" /\ Stepped(t))
          => (/\ req'[t].pc = "done"
              /\ req'[t].response = Redirect("/catalog")
              /\ error_count' = error_count
              /\ file' = file)

\* C5 as stated: a POST /add/course in which some field among code, name,
\* schedule, prerequisites is the empty string does not call save_courses,
\* increments error_count by exactly 1 and ends in the redirect to /catalog.
C5_EmptyFieldRejected ==
    [][\A t \in Threads :
          /\ (req[t].pc = "req_exit" /\ req[t].route = "add_post" /\ Stepped(t))
                => \A form \in Forms :
                      (/\ SomeRequiredEmpty(form)
                       /\ req'[t].pc = "done" \/ req'[t].form = form
                       /\ add_course_validate(t, form))
                         => (/\ req'[t].pc = "err_enter"
                             /\ error_count' = error_count
                             /\ file' = file)
          /\ FailurePath(t)
      ]_vars

\* C5 as amended: a POST /add/course that carries all nine form fields and in
\* which some field among code, name, schedule, prerequisites is the empty
\* string does not call save_courses (its steps leave the file as it is),
\* increments error_count by exactly 1 and ends in the redirect to /catalog.
C5_FullFormEmptyFieldRejected ==
    [][\A t \in Threads :
          /\ (req[t].pc = "req_exit" /\ req[t].route = "add_post" /\ Stepped(t))
                => \A form \in Forms :
                      (/\ HasAllFields(form)
                       /\ SomeRequiredEmpty(form)
                       /\ req'[t].pc = "done" \/ req'[t].form = form
                       /\ add_course_validate(t, form))
                         => (/\ req'[t].pc = "err_enter"
                             /\ error_count' = error_count
                             /\ file' = file)
          /\ FailurePath(t)
      ]_vars

\* A POST ended in the failure notice and the redirect; nothing was saved.
C5_Witness ==
    /\ file.kind = "absent"
    /\ error_count = 1
    /\ \E t \in Threads :
          /\ req[t].pc = "done"
          /\ req[t].route = "add_post"
          /\ req[t].response = Redirect("/catalog")
          /\ req[t].flashes = <<<<"error", "code">>>>

\* k is the first key, in the order code, name, schedule, prerequisites, whose
\* value in the form is the empty string.
IsFirstEmpty(form, k) ==
    \E i \in 1..Len(RequiredKeys) :
        /\ RequiredKeys[i] = k
        /\ form[k] = ""
        /\ \A j \in 1..(i - 1) : form[RequiredKeys[j]] # ""

Missing(log) == SelectSeq(log, LAMBDA e : e[1] = "missing")

C7_RendersAddedCourse ==
    [][\A t \in Threads :
          /\ (DumpStep(t) /\ file'.kind = "json")
                => req[t].course \in Range(file'.data)
          /\ (LookupStep(t) /\ file.kind = "json")
                => \A c \in Range(file.data) :
                      c.code = req[t].code
                         => req'[t].response = Render("course_details.html", <<c>>)
      ]_vars

\* C7 as amended: a successful POST of c leaves c as the last record of the file
\* it wrote, and a GET /course/<code> that loads the catalog renders the first
\* record, in file order, whose code is <code>: the record added last only
\* when no earlier record has its code.
C7_RendersFirstMatch ==
    [][\A t \in Threads :
          /\ (DumpStep(t) /\ file'.kind = "json")
                => file'.data[Len(file'.data)] = req[t].course
          /\ (LookupStep(t) /\ file.kind = "json")
                => \A i \in 1..Len(file.data) :
                      (/\ file.data[i].code = req[t].code
                       /\ \A j \in 1..(i - 1) : file.data[j].code # req[t].code)
                         => req'[t].response =
                               Render("course_details.html", <<file.data[i]>>)
      ]_vars

\* The catalog holds two different records with one code, and the detail page
\* rendered is that of the first.
C7_Witness ==
    /\ file.kind = "json"
    /\ Len(file.data) = 2
    /\ file.data[1].code = file.data[2].code
    /\ file.data[1] # file.data[2]
    /\ \E t \in Threads :
          /\ req[t].pc = "done"
          /\ req[t].route = "details"
          /\ req[t].response = Render("course_details.html", <<file.data[1]>>)

\* C8: GET /course/<code> for a code that no record of the catalog file has ends
\* in the redirect to /catalog, not in a hard error, and changes neither the
\* file nor error_count.
C8_UnknownCodeRedirects ==
    [][\A t \in Threads :
          (/\ LookupStep(t)
           /\ \A i \in 1..Len(file.data) : file.data[i].code # req[t].code)
             => (/\ req'[t].response = Redirect("/catalog")
                 /\ file' = file
                 /\ error_count' = error_count)
      ]_vars

\* C9: a GET / or GET /catalog changes neither the file nor error_count, and
\* requests_count grows by exactly 1 in the course of the request.
C9_GetsOnlyCount ==
    [][\A t \in Threads :
          (Stepped(t) /\ req'[t].route \in {"index", "catalog"})
             => (/\ file' = file
                 /\ error_count' = error_count
                 /\ requests_count' =
                       IF req'[t].pc = "req_exit" THEN requests_count + 1
                       ELSE requests_count
                 /\ req'[t].pc = "done" => req[t].pc = "req_exit")
      ]_vars

====
